---- MODULE Spec2Model ----
(***************************************************************************)
(* A model of the ant-colony simulation engine (crate src/src/sim):        *)
(* Coordinates, Resource, Pheromone, Ant, Colony and World.                *)
(*                                                                         *)
(* World::update is modelled step by step: the colony's spawn, one         *)
(* Ant::update per ant in iteration order, and the pheromone sweep; `pc`   *)
(* and `cursor` are the position inside World::update.  The pseudorandom   *)
(* source (shuffles, coin flips, random coordinates) is nondeterminism.    *)
(* A Rust panic is the absorbing position pc = "aborted".                  *)
(***************************************************************************)
EXTENDS Integers, Sequences, FiniteSets, TLC

VARIABLES
    resources,          \* World::resources: the tiles holding Some(Resource)
    resource_lookup,    \* World::resource_lookup: Vec<Coordinates>
    pheromones,         \* World::pheromones: the (tile, kind) cells holding Some(Pheromone)
    pheromone_lookup,   \* World::pheromone_lookup: Vec<(Coordinates, PheromoneType)>
    ants,               \* Colony::ants: AntType -> Vec<Ant>
    spawn_rate,         \* Colony::spawn_rate
    max_ants,           \* AntType::get_maximum_number_of_ants, per kind
    hash_order,         \* iteration order of the HashMap Colony::ants
    overflow_checks,    \* build profile: TRUE panics on integer overflow, FALSE wraps
    pc,                 \* position inside World::update
    cursor,             \* the next ant Colony::update visits: <<position in hash_order, index>>
    ticks,              \* completed World::update calls
    last_update,        \* what the latest step did (observation only)
    consumed,           \* per resource tile, the consume() calls ants made there (observation only)
    pheromone,          \* a stand-alone Pheromone (src/src/sim/pheromone.rs), as an Option
    pheromone_sim,      \* the same calls applied to the Pheromone of src/sim/src/pheromone.rs
    resource,           \* a stand-alone Resource
    coordinates,        \* a stand-alone Coordinates, as the Option Coordinates::new returned
    last_call           \* the latest call on the stand-alone objects and what it returned

vars == <<resources, resource_lookup, pheromones, pheromone_lookup, ants, spawn_rate,
          max_ants, hash_order, overflow_checks, pc, cursor, ticks, last_update, consumed,
          pheromone, pheromone_sim, resource, coordinates, last_call>>

worldVars == <<resources, resource_lookup, pheromones, pheromone_lookup, ants, spawn_rate,
               max_ants, hash_order, overflow_checks, pc, cursor, ticks, last_update,
               consumed>>

pureVars == <<pheromone, pheromone_sim, resource, coordinates, last_call>>

----------------------------------------------------------------------------
(* Settings (src/src/ant_settings.rs).  The grid, the pheromone ceiling,   *)
(* the population caps, the resource count and size and the journey budget *)
(* are scaled down so that the grid edges, pheromone expiry, full colonies *)
(* and a resource's last unit are reached within MaxTicks ticks; the       *)
(* source's values are 64, 64, 1000, 25, 10, 5, 20 and 1000.               *)

WORLD_WIDTH == 4

WORLD_HEIGHT == 3

MAXIMUM_PHEROMONE_STRENGTH == 10

DEFAULT_COLONY_SCOUT_SIZE == 1

DEFAULT_COLONY_WORKER_SIZE == 1

DEFAULT_RESOURCE_COUNT == 1

DEFAULT_RESOURCE_SIZE == 2

DEFAULT_MAX_ANT_STEPS == 1

\* ticks of World::update the model runs
MaxTicks == 3

\* largest per-kind cap and spawn rate the stand-alone colony is configured with
MaxCap == 3

MaxSpawnRate == 4

\* ticks of Colony::spawn_ants the stand-alone colony runs
MaxSpawnTicks == 4

DEFAULT_EXPLORATION_PHEROMONE_DEPRECIATION_RATE == 5

DEFAULT_RESOURCE_PHEROMONE_DEPRECIATION_RATE == 10

DEFAULT_COLONY_SPAWN_RATE == 2

DEFAULT_TERRITORY_SIZE == 0

\* probabilities, in thousandths (trim_f64)
SCOUT_RETURN_PHEROMONE_CHANCE == 900

WORKER_PHEROMONE_CHANCE == 900

ANT_BACKWARDS_CHANCE == 100

\* u16::MAX, u8::MAX, i32::MAX
U16Max == 65535

U8Max == 255

I32Max == 2147483647

----------------------------------------------------------------------------
(* Option<T>: None is the empty sequence, Some(v) the one-element one.     *)

None == <<>>

Some(v) == <<v>>

is_some(o) == o # <<>>

unwrap(o) == o[1]

AntTypes == {"Scout", "Worker"}

PheromoneTypes == {"Exploration", "Resource"}

----------------------------------------------------------------------------
(* Coordinates (src/src/sim/mod.rs) *)

Coordinates(x, y) == [x_position |-> x, y_position |-> y]

Coordinates_default == Coordinates(0, 0)

\* the tiles of the fixed-size grids [[_; WORLD_HEIGHT]; WORLD_WIDTH]
Tiles == {Coordinates(x, y) : x \in 0..(WORLD_WIDTH - 1), y \in 0..(WORLD_HEIGHT - 1)}

\* an index expression grid[x][y] is in range
InGrid(c) == c.x_position < WORLD_WIDTH /\ c.y_position < WORLD_HEIGHT

Coordinates_new(x, y) ==
    IF x > WORLD_WIDTH \/ y > WORLD_HEIGHT THEN None ELSE Some(Coordinates(x, y))

\* i32::checked_add
checked_add_i32(a, b) ==
    IF (b > 0 /\ a > I32Max - b) \/ (b < 0 /\ a < (-I32Max - 1) - b) THEN None
    ELSE Some(a + b)

SafeAxis(pos, amount, limit) ==
    LET new_position == IF is_some(checked_add_i32(pos, amount))
                        THEN unwrap(checked_add_i32(pos, amount))
                        ELSE limit
    IN  IF new_position > limit THEN limit
        ELSE IF new_position < 0 THEN 0
        ELSE new_position

safe_modify(self, x_amount, y_amount) ==
    Coordinates(SafeAxis(self.x_position, x_amount, WORLD_WIDTH),
                SafeAxis(self.y_position, y_amount, WORLD_HEIGHT))

\* a checked move that accepts the boundary itself, as Coordinates::new does
modify_inclusive(self, x_amount, y_amount) ==
    LET nx == self.x_position + x_amount
        ny == self.y_position + y_amount
    IN  IF nx > WORLD_WIDTH \/ nx < 0 \/ ny > WORLD_HEIGHT \/ ny < 0 THEN None
        ELSE Some(Coordinates(nx, ny))

\* a checked move that saturates at the boundary instead of failing
modify_saturating(self, x_amount, y_amount) ==
    Some(safe_modify(self, x_amount, y_amount))

modify(self, x_amount, y_amount) ==
    LET nx == checked_add_i32(self.x_position, x_amount)
        ny == checked_add_i32(self.y_position, y_amount)
    IN  IF ~is_some(nx) THEN None
        ELSE IF unwrap(nx) >= WORLD_WIDTH \/ unwrap(nx) < 0 THEN None
        ELSE IF ~is_some(ny) THEN None
        ELSE IF unwrap(ny) >= WORLD_HEIGHT \/ unwrap(ny) < 0 THEN None
        ELSE Some(Coordinates(unwrap(nx), unwrap(ny)))

Abs(n) == IF n < 0 THEN -n ELSE n

\* both terms are computed from the x positions, as the source does
manhattan_distance(self, other) ==
    LET x_distance == Abs(self.x_position - other.x_position)
        y_distance == Abs(self.x_position - other.x_position)
    IN  x_distance + y_distance

----------------------------------------------------------------------------
(* Pheromone (src/src/sim/pheromone.rs, src/sim/src/pheromone.rs) *)

Pheromone(strength, depreciation_rate, pheromone_type) ==
    [strength |-> strength, depreciation_rate |-> depreciation_rate,
     pheromone_type |-> pheromone_type]

\* a constructor that accepts every strength and rate
Pheromone_new_unchecked(strength, depreciation_rate, pheromone_type) ==
    Some(Pheromone(strength, depreciation_rate, pheromone_type))

Pheromone_new(strength, depreciation_rate, pheromone_type) ==
    IF MAXIMUM_PHEROMONE_STRENGTH < strength \/ strength < depreciation_rate
    THEN None
    ELSE Some(Pheromone(strength, depreciation_rate, pheromone_type))

Pheromone_default(pheromone_type) ==
    Pheromone(MAXIMUM_PHEROMONE_STRENGTH,
              IF pheromone_type = "Exploration"
              THEN DEFAULT_EXPLORATION_PHEROMONE_DEPRECIATION_RATE
              ELSE DEFAULT_RESOURCE_PHEROMONE_DEPRECIATION_RATE,
              pheromone_type)

\* u16::checked_add, u16::checked_sub
checked_add_u16(a, b) == IF a + b > U16Max THEN None ELSE Some(a + b)

checked_sub_u16(a, b) == IF a < b THEN None ELSE Some(a - b)

\* a refresh that adds without a ceiling
refresh_uncapped(self, strength) ==
    [self EXCEPT !.strength = (self.strength + strength) % (U16Max + 1)]

\* src/src/sim/pheromone.rs: the fallback is MAXIMUM_PHEROMONE_STRENGTH - 1
refresh(self, strength) ==
    LET sum == checked_add_u16(self.strength, strength)
    IN  IF is_some(sum) /\ unwrap(sum) < MAXIMUM_PHEROMONE_STRENGTH
        THEN [self EXCEPT !.strength = unwrap(sum)]
        ELSE [self EXCEPT !.strength = MAXIMUM_PHEROMONE_STRENGTH - 1]

\* src/sim/src/pheromone.rs: the fallback is MAXIMUM_PHEROMONE_STRENGTH
refresh_sim(self, strength) ==
    LET sum == checked_add_u16(self.strength, strength)
    IN  IF is_some(sum) /\ unwrap(sum) < MAXIMUM_PHEROMONE_STRENGTH
        THEN [self EXCEPT !.strength = unwrap(sum)]
        ELSE [self EXCEPT !.strength = MAXIMUM_PHEROMONE_STRENGTH]

\* an update that clamps at 0 and always reports the pheromone alive
Pheromone_update_never_expires(self) ==
    [self |-> [self EXCEPT !.strength =
                               IF self.strength < self.depreciation_rate THEN 0
                               ELSE self.strength - self.depreciation_rate],
     ret |-> TRUE]

\* Pheromone::update: the pheromone afterwards and the returned bool
Pheromone_update(self) ==
    LET strength == checked_sub_u16(self.strength, self.depreciation_rate)
    IN  IF is_some(strength)
        THEN [self |-> [self EXCEPT !.strength = unwrap(strength)], ret |-> TRUE]
        ELSE [self |-> [self EXCEPT !.strength = 0], ret |-> FALSE]

----------------------------------------------------------------------------
(* Resource (src/src/sim/resource.rs) *)

Resource(n) == [resources_remaining |-> n]

Resource_default == Resource(DEFAULT_RESOURCE_SIZE)

\* Resource::consume: the resource afterwards and the returned Option<u8>
consume(self) ==
    IF self.resources_remaining >= 1
    THEN [self |-> Resource(self.resources_remaining - 1),
          ret |-> Some(self.resources_remaining - 1)]
    ELSE [self |-> self, ret |-> None]

----------------------------------------------------------------------------
(* Ant (src/src/sim/ant.rs) *)

MOVE_POSSIBILITIES == << <<-1, 0>>, <<1, 0>>, <<0, -1>>, <<0, 1>> >>

\* every outcome of moves.shuffle(&mut thread_rng())
Shuffles ==
    {[i \in 1..4 |-> MOVE_POSSIBILITIES[p[i]]] :
        p \in {q \in [1..4 -> 1..4] : \A i, j \in 1..4 : q[i] = q[j] => i = j}}

Ant_new(ant_type, position, colony_position) ==
    [ant_type |-> ant_type,
     position |-> position,
     is_returning_to_colony |-> FALSE,
     steps_on_current_journey |-> 0,
     colony_position |-> colony_position,
     distance_from_colony |-> 0,
     found_food |-> FALSE]

\* the result of a step of an ant: the ant afterwards, whether the step
\* panicked, and which movement procedure produced the position
Moved(ant, mode) == [ant |-> ant, panic |-> FALSE, mode |-> mode]

Panicked(ant, mode) == [ant |-> ant, panic |-> TRUE, mode |-> mode]

\* a direction test that also accepts an unchanged distance
is_correct_direction_inclusive(self, new_position) ==
    LET new_distance == manhattan_distance(new_position, self.colony_position)
    IN  IF self.is_returning_to_colony
        THEN new_distance <= self.distance_from_colony
        ELSE new_distance >= self.distance_from_colony

is_correct_direction(self, new_position) ==
    LET new_distance == manhattan_distance(new_position, self.colony_position)
    IN  IF self.is_returning_to_colony
        THEN new_distance < self.distance_from_colony
        ELSE new_distance > self.distance_from_colony

\* a loop of move_random that tests the clamped target of safe_modify
RECURSIVE move_random_loop_clamped(_, _, _, _, _)
move_random_loop_clamped(self, moves, i, allow_backwards, new_position) ==
    IF i > Len(moves) THEN new_position
    ELSE LET test_position == Some(safe_modify(self.position, moves[i][1], moves[i][2]))
         IN  IF allow_backwards \/ is_correct_direction(self, unwrap(test_position))
             THEN test_position
             ELSE move_random_loop_clamped(self, moves, i + 1, allow_backwards,
                                           test_position)

\* the for loop of move_random from the i-th shuffled move on: the value of
\* new_position when the loop ends
RECURSIVE move_random_loop(_, _, _, _, _)
move_random_loop(self, moves, i, allow_backwards, new_position) ==
    IF i > Len(moves) THEN new_position
    ELSE LET test_position == modify(self.position, moves[i][1], moves[i][2])
         IN  IF is_some(test_position)
             THEN IF allow_backwards \/ is_correct_direction(self, unwrap(test_position))
                  THEN test_position
                  ELSE move_random_loop(self, moves, i + 1, allow_backwards, test_position)
             ELSE move_random_loop(self, moves, i + 1, TRUE, new_position)

\* allow_backwards is the roll rand::random() > ANT_BACKWARDS_CHANCE
move_random(self, allow_backwards, moves) ==
    LET new_position == move_random_loop(self, moves, 1, allow_backwards, None)
    IN  IF ~is_some(new_position)
        THEN Panicked(self, "random")
        ELSE Moved([self EXCEPT
                       !.position = unwrap(new_position),
                       !.distance_from_colony =
                           manhattan_distance(unwrap(new_position), self.colony_position)],
                   "random")

\* a read that sees the grid as the last sweep left it: a pheromone still at
\* full strength was laid after that sweep and reads as absent
LayerStrength_snapshot(pheromones_map, tile, kind) ==
    IF <<tile, kind>> \in DOMAIN pheromones_map
       /\ pheromones_map[<<tile, kind>>].strength < MAXIMUM_PHEROMONE_STRENGTH
    THEN pheromones_map[<<tile, kind>>].strength
    ELSE 0

\* the strength read from one layer of a tile, 0 when the cell is None
LayerStrength(pheromones_map, tile, kind) ==
    IF <<tile, kind>> \in DOMAIN pheromones_map
    THEN pheromones_map[<<tile, kind>>].strength
    ELSE 0

\* the for loop of move_pheromones from the i-th shuffled move on
RECURSIVE move_pheromones_loop(_, _, _, _, _, _)
move_pheromones_loop(self, pheromones_map, moves, i, strongest_pheromone, position) ==
    IF i > Len(moves)
    THEN [strongest_pheromone |-> strongest_pheromone, position |-> position,
          panic |-> FALSE]
    ELSE LET new_position == safe_modify(self.position, moves[i][1], moves[i][2])
         IN  IF ~is_correct_direction(self, new_position)
             THEN move_pheromones_loop(self, pheromones_map, moves, i + 1,
                                       strongest_pheromone, position)
             ELSE IF ~InGrid(new_position)
             THEN [strongest_pheromone |-> strongest_pheromone, position |-> position,
                   panic |-> TRUE]
             ELSE LET exploration ==
                          IF self.ant_type = "Scout"
                          THEN LayerStrength(pheromones_map, new_position, "Exploration")
                          ELSE 0
                      after_exploration ==
                          IF exploration > strongest_pheromone
                          THEN <<exploration, new_position>>
                          ELSE <<strongest_pheromone, position>>
                      food == LayerStrength(pheromones_map, new_position, "Resource")
                      after_resource ==
                          IF food > after_exploration[1]
                          THEN <<food, new_position>>
                          ELSE after_exploration
                 IN  move_pheromones_loop(self, pheromones_map, moves, i + 1,
                                          after_resource[1], after_resource[2])

\* fallback is the outcome of the nested call self.move_random()
move_pheromones(self, pheromones_map, moves, fallback) ==
    LET scan == move_pheromones_loop(self, pheromones_map, moves, 1, 0,
                                     Coordinates_default)
    IN  IF scan.panic THEN Panicked(self, "pheromones")
        ELSE IF scan.strongest_pheromone = 0
        THEN [fallback EXCEPT !.mode = "fallback"]
        ELSE Moved([self EXCEPT
                       !.position = scan.position,
                       !.distance_from_colony =
                           manhattan_distance(scan.position, self.colony_position)],
                   "pheromones")

\* the rolls rand::random::<f64>() > ANT_BACKWARDS_CHANCE can give
AllowBackwardsRolls ==
    (IF ANT_BACKWARDS_CHANCE < 1000 THEN {TRUE} ELSE {}) \cup
    (IF ANT_BACKWARDS_CHANCE >= 0 THEN {FALSE} ELSE {})

move_random_outcomes(self) ==
    {move_random(self, allow_backwards, moves) :
        allow_backwards \in AllowBackwardsRolls, moves \in Shuffles}

\* every outcome of move_pheromones.  The nested call self.move_random() is
\* only made, and its outcome only used, when the scan found no pheromone, so
\* the scans are enumerated first and the nested outcomes joined afterwards.
move_pheromones_outcomes(self, pheromones_map) ==
    LET scans == {move_pheromones(self, pheromones_map, moves, Panicked(self, "random")) :
                     moves \in Shuffles}
    IN  {r \in scans : r.mode # "fallback"} \cup
        (IF \E r \in scans : r.mode = "fallback"
         THEN {[fallback EXCEPT !.mode = "fallback"] : fallback \in move_random_outcomes(self)}
         ELSE {})

\* a first statement of move_ant without the colony branch
move_ant_timeout_only(self) ==
    IF self.steps_on_current_journey > DEFAULT_MAX_ANT_STEPS
    THEN [self EXCEPT !.steps_on_current_journey = 0,
                      !.is_returning_to_colony = TRUE]
    ELSE self

\* a first statement of move_ant that times out one step early
move_ant_timeout_at_budget(self) ==
    IF self.position = self.colony_position
    THEN [self EXCEPT !.steps_on_current_journey = 0,
                      !.is_returning_to_colony = FALSE,
                      !.found_food = FALSE]
    ELSE IF self.steps_on_current_journey >= DEFAULT_MAX_ANT_STEPS
    THEN [self EXCEPT !.steps_on_current_journey = 0,
                      !.is_returning_to_colony = TRUE]
    ELSE self

\* a first statement of move_ant whose timeout starts a new outward journey
move_ant_timeout_restarts(self) ==
    IF self.position = self.colony_position
    THEN [self EXCEPT !.steps_on_current_journey = 0,
                      !.is_returning_to_colony = FALSE,
                      !.found_food = FALSE]
    ELSE IF self.steps_on_current_journey > DEFAULT_MAX_ANT_STEPS
    THEN [self EXCEPT !.steps_on_current_journey = 0,
                      !.is_returning_to_colony = ~self.is_returning_to_colony]
    ELSE self

\* a first statement of move_ant without the journey timeout
move_ant_no_timeout(self) ==
    IF self.position = self.colony_position
    THEN [self EXCEPT !.steps_on_current_journey = 0,
                      !.is_returning_to_colony = FALSE,
                      !.found_food = FALSE]
    ELSE self

\* a first statement of move_ant whose colony branch leaves found_food alone
move_ant_keeps_food(self) ==
    IF self.position = self.colony_position
    THEN [self EXCEPT !.steps_on_current_journey = 0,
                      !.is_returning_to_colony = FALSE]
    ELSE IF self.steps_on_current_journey > DEFAULT_MAX_ANT_STEPS
    THEN [self EXCEPT !.steps_on_current_journey = 0,
                      !.is_returning_to_colony = TRUE]
    ELSE self

\* the first statement of move_ant: reset at the colony, else journey timeout
move_ant_reset(self) ==
    IF self.position = self.colony_position
    THEN [self EXCEPT !.steps_on_current_journey = 0,
                      !.is_returning_to_colony = FALSE,
                      !.found_food = FALSE]
    ELSE IF self.steps_on_current_journey > DEFAULT_MAX_ANT_STEPS
    THEN [self EXCEPT !.steps_on_current_journey = 0,
                      !.is_returning_to_colony = TRUE]
    ELSE self

\* ant_pheromone_chance in thousandths.  For an exploring Scout the source
\* computes 1/exp(distance/DEFAULT_TERRITORY_SIZE): with a territory of 0 that
\* is 0 (distance > 0) or NaN (distance = 0), and random_chance < NaN is false,
\* so both count as 0; otherwise it is 1 at distance 0 and strictly between
\* 0 and 1 beyond it (500 stands for any such value).
ant_pheromone_chance(self) ==
    IF self.ant_type = "Scout"
    THEN IF self.is_returning_to_colony THEN SCOUT_RETURN_PHEROMONE_CHANCE
         ELSE IF DEFAULT_TERRITORY_SIZE = 0 THEN 0
         ELSE IF self.distance_from_colony = 0 THEN 1000
         ELSE 500
    ELSE WORKER_PHEROMONE_CHANCE

\* every outcome of move_ant: random_chance is uniform in [0, 1)
move_ant(self, pheromones_map) ==
    LET ant == move_ant_reset(self)
        chance == ant_pheromone_chance(ant)
    IN  (IF chance > 0 THEN move_pheromones_outcomes(ant, pheromones_map) ELSE {}) \cup
        (IF chance < 1000 THEN move_random_outcomes(ant) ELSE {})

\* a laying rule under which every Scout without food marks its trail
laid_pheromone_type_any_scout(self) ==
    IF self.found_food THEN Some("Resource")
    ELSE IF self.ant_type = "Scout" THEN Some("Exploration")
    ELSE None

\* the kind of pheromone update_pheromone lays, None when it returns early
laid_pheromone_type(self) ==
    IF self.found_food THEN Some("Resource")
    ELSE IF self.ant_type = "Scout" /\ ~self.is_returning_to_colony
    THEN Some("Exploration")
    ELSE None

\* an update_pheromone that registers the cell on every visit
update_pheromone_always_pushes(self, pheromones_lookup, pheromones_map) ==
    LET pheromone_type == laid_pheromone_type(self)
        cell == <<self.position, unwrap(pheromone_type)>>
    IN  IF ~is_some(pheromone_type)
        THEN [pheromones_lookup |-> pheromones_lookup, pheromones_map |-> pheromones_map]
        ELSE [pheromones_lookup |-> Append(pheromones_lookup, cell),
              pheromones_map |->
                  [c \in DOMAIN pheromones_map \cup {cell} |->
                      IF c \in DOMAIN pheromones_map
                      THEN IF c = cell
                           THEN refresh(pheromones_map[c], pheromones_map[c].strength)
                           ELSE pheromones_map[c]
                      ELSE Pheromone_default(unwrap(pheromone_type))]]

\* update_pheromone: the lookup list and the grid afterwards
update_pheromone(self, pheromones_lookup, pheromones_map) ==
    LET pheromone_type == laid_pheromone_type(self)
        cell == <<self.position, unwrap(pheromone_type)>>
    IN  IF ~is_some(pheromone_type)
        THEN [pheromones_lookup |-> pheromones_lookup, pheromones_map |-> pheromones_map]
        ELSE IF cell \in DOMAIN pheromones_map
        THEN [pheromones_lookup |-> pheromones_lookup,
              pheromones_map |->
                  [pheromones_map EXCEPT
                      ![cell] = refresh(pheromones_map[cell], pheromones_map[cell].strength)]]
        ELSE [pheromones_lookup |-> Append(pheromones_lookup, cell),
              pheromones_map |->
                  [c \in DOMAIN pheromones_map \cup {cell} |->
                      IF c = cell THEN Pheromone_default(unwrap(pheromone_type))
                      ELSE pheromones_map[c]]]

\* `if let Some(mut food) = &food_map[..]`: the `mut` binding copies the
\* Resource out of the grid, so consume() acts on the copy; the grid cell is
\* only ever cleared, when the copy's consume() returns None
consume_food(self, food_map) ==
    IF self.position \in DOMAIN food_map
    THEN LET food == food_map[self.position]
         IN  [ant |-> [self EXCEPT !.is_returning_to_colony = TRUE, !.found_food = TRUE],
              food_map |->
                  IF ~is_some(consume(food).ret)
                  THEN [c \in DOMAIN food_map \ {self.position} |-> food_map[c]]
                  ELSE food_map]
    ELSE [ant |-> self, food_map |-> food_map]

\* every outcome of Ant::update; indexing a grid outside its range panics
Ant_update(self, food_map, pheromones_lookup, pheromones_map, checks) ==
    LET overflow == self.steps_on_current_journey + 1 > U16Max
        stepped == [self EXCEPT !.steps_on_current_journey =
                                    (self.steps_on_current_journey + 1) % (U16Max + 1)]
        fed == consume_food(stepped, food_map)
    IN  IF (overflow /\ checks) \/ ~InGrid(self.position)
        THEN {[ant |-> self, panic |-> TRUE, mode |-> "none", food_map |-> food_map,
               pheromones_lookup |-> pheromones_lookup,
               pheromones_map |-> pheromones_map]}
        ELSE {LET laid == update_pheromone(m.ant, pheromones_lookup, pheromones_map)
              IN  IF m.panic \/ (is_some(laid_pheromone_type(m.ant)) /\ ~InGrid(m.ant.position))
                  THEN [ant |-> m.ant, panic |-> TRUE, mode |-> m.mode,
                        food_map |-> fed.food_map,
                        pheromones_lookup |-> pheromones_lookup,
                        pheromones_map |-> pheromones_map]
                  ELSE [ant |-> m.ant, panic |-> FALSE, mode |-> m.mode,
                        food_map |-> fed.food_map,
                        pheromones_lookup |-> laid.pheromones_lookup,
                        pheromones_map |-> laid.pheromones_map]
              : m \in move_ant(fed.ant, pheromones_map)}

----------------------------------------------------------------------------
(* Colony (src/src/sim/colony.rs) *)

\* Colony::default: Coordinates::new(WORLD_WIDTH / 2, WORLD_HEIGHT / 2).unwrap()
Colony_position == unwrap(Coordinates_new(WORLD_WIDTH \div 2, WORLD_HEIGHT \div 2))

\* u16 arithmetic: the wrapped value, and whether the exact result left u16
U16(n) == [value |-> n % (U16Max + 1), overflow |-> n < 0 \/ n > U16Max]

\* the first loop of spawn_ants from the i-th kind on
RECURSIVE spawn_required_loop(_, _, _, _, _, _, _)
spawn_required_loop(colony_ants, caps, order, i, ants_spawn, total_required_ants, overflow) ==
    IF i > Len(order)
    THEN [ants_spawn |-> ants_spawn, total_required_ants |-> total_required_ants,
          overflow |-> overflow]
    ELSE LET ant_type == order[i]
             required == U16(caps[ant_type] - Len(colony_ants[ant_type]))
             total == U16(total_required_ants + required.value)
         IN  IF required.value > 0
             THEN spawn_required_loop(colony_ants, caps, order, i + 1,
                                      Append(ants_spawn, <<ant_type, required.value>>),
                                      total.value,
                                      overflow \/ required.overflow \/ total.overflow)
             ELSE spawn_required_loop(colony_ants, caps, order, i + 1, ants_spawn,
                                      total_required_ants, overflow \/ required.overflow)

\* an allocation that rounds the share up
to_spawn_rounded_up(amount, rate, total_required_ants) ==
    [value |-> IF total_required_ants = 0 THEN 0
               ELSE (amount * rate + total_required_ants - 1) \div total_required_ants,
     overflow |-> FALSE,
     division_by_zero |-> total_required_ants = 0]

\* an allocation that gives every understaffed kind the whole spawn rate
to_spawn_whole_rate(amount, rate, total_required_ants) ==
    [value |-> rate, overflow |-> FALSE, division_by_zero |-> total_required_ants = 0]

\* an allocation that divides the rate by the total first
to_spawn_rate_first(amount, rate, total_required_ants) ==
    [value |-> IF total_required_ants = 0 THEN 0
               ELSE amount * (rate \div total_required_ants),
     overflow |-> FALSE,
     division_by_zero |-> total_required_ants = 0]

\* `amount * (self.spawn_rate * 100) / total_required_ants`, then `/= 100`
to_spawn_amount(amount, rate, total_required_ants) ==
    LET rate100 == U16(rate * 100)
        product == U16(amount * rate100.value)
    IN  [value |-> IF total_required_ants = 0 THEN 0
                   ELSE (product.value \div total_required_ants) \div 100,
         overflow |-> rate100.overflow \/ product.overflow,
         division_by_zero |-> total_required_ants = 0]

\* to_spawn pushes of Ant::new(ant_type, position, position)
Spawned(ant_type, position, to_spawn) ==
    [n \in 1..to_spawn |-> Ant_new(ant_type, position, position)]

\* the second loop of spawn_ants from the i-th entry of ants_spawn on
RECURSIVE spawn_push_loop(_, _, _, _, _, _, _)
spawn_push_loop(colony_ants, position, rate, ants_spawn, i, total_required_ants, checks) ==
    IF i > Len(ants_spawn) THEN [ants |-> colony_ants, panic |-> FALSE]
    ELSE LET ant_type == ants_spawn[i][1]
             to_spawn == to_spawn_amount(ants_spawn[i][2], rate, total_required_ants)
         IN  IF to_spawn.division_by_zero \/ (checks /\ to_spawn.overflow)
             THEN [ants |-> colony_ants, panic |-> TRUE]
             ELSE spawn_push_loop(
                      [colony_ants EXCEPT
                          ![ant_type] = @ \o Spawned(ant_type, position, to_spawn.value)],
                      position, rate, ants_spawn, i + 1, total_required_ants, checks)

\* Colony::spawn_ants: the ants afterwards, or a panic (integer overflow in a
\* build with overflow checks, division by zero in any build)
spawn_ants(colony_ants, position, rate, caps, order, checks) ==
    LET counted == spawn_required_loop(colony_ants, caps, order, 1, <<>>, 0, FALSE)
    IN  IF checks /\ counted.overflow
        THEN [ants |-> colony_ants, panic |-> TRUE]
        ELSE spawn_push_loop(colony_ants, position, rate, counted.ants_spawn, 1,
                             counted.total_required_ants, checks)

\* AntType::get_maximum_number_of_ants
get_maximum_number_of_ants ==
    [ant_type \in AntTypes |->
        IF ant_type = "Scout" THEN DEFAULT_COLONY_SCOUT_SIZE
        ELSE DEFAULT_COLONY_WORKER_SIZE]

\* the orders in which a HashMap<AntType, _> can iterate over its two keys
HashOrders == {<<"Scout", "Worker">>, <<"Worker", "Scout">>}

\* the nested for loops of Colony::update: the ant visited first, and the ant
\* visited after the i-th ant of the k-th kind; <<0, 0>> when the loops end
RECURSIVE CursorFrom(_, _, _)
CursorFrom(colony_ants, order, k) ==
    IF k > Len(order) THEN <<0, 0>>
    ELSE IF Len(colony_ants[order[k]]) > 0 THEN <<k, 1>>
    ELSE CursorFrom(colony_ants, order, k + 1)

\* loops that end after the ants of one kind
NextCursor_one_kind(colony_ants, order, k, i) ==
    IF i < Len(colony_ants[order[k]]) THEN <<k, i + 1>>
    ELSE <<0, 0>>

NextCursor(colony_ants, order, k, i) ==
    IF i < Len(colony_ants[order[k]]) THEN <<k, i + 1>>
    ELSE CursorFrom(colony_ants, order, k + 1)

----------------------------------------------------------------------------
(* World (src/src/sim/world.rs) *)

\* the retain closure of World::update applied from the i-th entry on
RECURSIVE sweep_loop(_, _, _, _)
sweep_loop(lookup, i, pheromones_map, new_lookup) ==
    IF i > Len(lookup)
    THEN [pheromones |-> pheromones_map, pheromone_lookup |-> new_lookup]
    ELSE LET cell == lookup[i]
         IN  IF cell \in DOMAIN pheromones_map
             THEN LET updated == Pheromone_update(pheromones_map[cell])
                  IN  IF updated.ret
                      THEN sweep_loop(lookup, i + 1,
                                      [pheromones_map EXCEPT ![cell] = updated.self],
                                      Append(new_lookup, cell))
                      ELSE sweep_loop(lookup, i + 1,
                                      [c \in DOMAIN pheromones_map \ {cell} |->
                                          pheromones_map[c]],
                                      new_lookup)
             ELSE sweep_loop(lookup, i + 1, pheromones_map, Append(new_lookup, cell))

\* a sweep that drops expired entries from the lookup list only
sweep_keeps_cell(lookup, pheromones_map) ==
    [pheromones |-> [c \in DOMAIN pheromones_map |->
                        Pheromone_update(pheromones_map[c]).self],
     pheromone_lookup |-> sweep_loop(lookup, 1, pheromones_map, <<>>).pheromone_lookup]

\* a sweep that visits every entry of the lookup list twice
sweep_decays_twice(lookup, pheromones_map) ==
    sweep_loop(lookup \o lookup, 1, pheromones_map, <<>>)

\* the second half of World::update
sweep(lookup, pheromones_map) == sweep_loop(lookup, 1, pheromones_map, <<>>)

\* the lookup lists World::default can build: DEFAULT_RESOURCE_COUNT calls of
\* new_resource, each at a random tile that holds no resource yet
ResourcePlacements ==
    {s \in [1..DEFAULT_RESOURCE_COUNT -> Tiles] :
        \A i, j \in 1..DEFAULT_RESOURCE_COUNT : s[i] = s[j] => i = j}

NoUpdate ==
    [op |-> "none", ant_type |-> "none", index |-> 0, before |-> None, after |-> None,
     mode |-> "none", food_before |-> None, pheromones_before |-> <<>>,
     lookup_before |-> <<>>, updated |-> 0]

NoCall == [op |-> "none", amount |-> 0, before |-> None, before_sim |-> None,
           ret |-> None]

\* the stand-alone objects, untouched by the world
PureIdle ==
    /\ pheromone = None
    /\ pheromone_sim = None
    /\ resource = Resource_default
    /\ coordinates = None
    /\ last_call = NoCall

\* the world, untouched by the stand-alone objects
WorldIdle ==
    /\ resources = <<>>
    /\ resource_lookup = <<>>
    /\ pheromones = <<>>
    /\ pheromone_lookup = <<>>
    /\ ants = [ant_type \in AntTypes |-> <<>>]
    /\ spawn_rate = DEFAULT_COLONY_SPAWN_RATE
    /\ max_ants = get_maximum_number_of_ants
    /\ hash_order = <<"Scout", "Worker">>
    /\ overflow_checks = TRUE
    /\ pc = "idle"
    /\ cursor = <<0, 0>>
    /\ ticks = 0
    /\ last_update = NoUpdate
    /\ consumed = <<>>

\* World::default: one default colony and DEFAULT_RESOURCE_COUNT resources
Init ==
    /\ resource_lookup \in ResourcePlacements
    /\ resources = [c \in {resource_lookup[i] : i \in DOMAIN resource_lookup} |->
                       Resource_default]
    /\ pheromones = <<>>
    /\ pheromone_lookup = <<>>
    /\ ants = [ant_type \in AntTypes |-> <<>>]
    /\ spawn_rate = DEFAULT_COLONY_SPAWN_RATE
    /\ max_ants = get_maximum_number_of_ants
    /\ hash_order \in HashOrders
    \* a run is the same in both build profiles up to its first overflow, which
    \* the checked profile turns into a panic
    /\ overflow_checks = TRUE
    /\ pc = "idle"
    /\ cursor = <<0, 0>>
    /\ ticks = 0
    /\ last_update = NoUpdate
    /\ consumed = [c \in {resource_lookup[i] : i \in DOMAIN resource_lookup} |-> 0]
    /\ PureIdle

\* World::update enters Colony::update, which first calls spawn_ants
ColonySpawn ==
    /\ pc = "idle"
    /\ ticks < MaxTicks
    /\ LET spawned == spawn_ants(ants, Colony_position, spawn_rate, max_ants,
                                 hash_order, overflow_checks)
           first == CursorFrom(spawned.ants, hash_order, 1)
       IN  /\ ants' = spawned.ants
           /\ pc' = IF spawned.panic THEN "aborted"
                    ELSE IF first = <<0, 0>> THEN "sweep" ELSE "ants"
           /\ cursor' = IF spawned.panic THEN <<0, 0>> ELSE first
           /\ last_update' = [NoUpdate EXCEPT !.op = "spawn"]
    /\ UNCHANGED <<resources, resource_lookup, pheromones, pheromone_lookup, spawn_rate,
                   max_ants, hash_order, overflow_checks, ticks, consumed>>
    /\ UNCHANGED pureVars

\* one iteration of the loops of Colony::update: Ant::update of the ant at the cursor
AntUpdate ==
    /\ pc = "ants"
    /\ LET ant_type == hash_order[cursor[1]]
           index == cursor[2]
           ant == ants[ant_type][index]
       IN  \E out \in Ant_update(ant, resources, pheromone_lookup, pheromones,
                                 overflow_checks) :
               LET next == NextCursor(ants, hash_order, cursor[1], cursor[2])
               IN  /\ ants' = [ants EXCEPT ![ant_type][index] = out.ant]
                   /\ resources' = out.food_map
                   /\ pheromone_lookup' = out.pheromones_lookup
                   /\ pheromones' = out.pheromones_map
                   /\ pc' = IF out.panic THEN "aborted"
                            ELSE IF next = <<0, 0>> THEN "sweep" ELSE "ants"
                   /\ cursor' = IF out.panic THEN cursor ELSE next
                   /\ last_update' =
                          [op |-> "ant", ant_type |-> ant_type, index |-> index,
                           before |-> Some(ant), after |-> Some(out.ant), mode |-> out.mode,
                           food_before |-> IF ant.position \in DOMAIN resources
                                           THEN Some(resources[ant.position]) ELSE None,
                           pheromones_before |-> <<>>,
                           lookup_before |-> pheromone_lookup,
                           updated |-> last_update.updated + 1]
                   /\ consumed' = IF ant.position \in DOMAIN resources
                                   THEN [consumed EXCEPT ![ant.position] = @ + 1]
                                   ELSE consumed
    /\ UNCHANGED <<resource_lookup, spawn_rate, max_ants, hash_order, overflow_checks,
                   ticks>>
    /\ UNCHANGED pureVars

\* the second half of World::update: decay and evict, then the tick is over
PheromoneSweep ==
    /\ pc = "sweep"
    /\ LET swept == sweep(pheromone_lookup, pheromones)
       IN  /\ pheromones' = swept.pheromones
           /\ pheromone_lookup' = swept.pheromone_lookup
    /\ pc' = "idle"
    /\ ticks' = ticks + 1
    /\ last_update' = [NoUpdate EXCEPT !.op = "sweep", !.pheromones_before = pheromones,
                                       !.lookup_before = pheromone_lookup,
                                       !.updated = last_update.updated]
    /\ UNCHANGED <<resources, resource_lookup, ants, spawn_rate, max_ants, hash_order,
                   overflow_checks, cursor, consumed>>
    /\ UNCHANGED pureVars

Next == ColonySpawn \/ AntUpdate \/ PheromoneSweep

Spec == Init /\ [][Next]_vars

----------------------------------------------------------------------------
(* A stand-alone colony: Colony::spawn_ants tick after tick, for every      *)
(* configuration of caps and spawn rate up to MaxCap and MaxSpawnRate and   *)
(* both build profiles.                                                     *)

InitColony ==
    /\ resources = <<>>
    /\ resource_lookup = <<>>
    /\ pheromones = <<>>
    /\ pheromone_lookup = <<>>
    /\ ants = [ant_type \in AntTypes |-> <<>>]
    /\ spawn_rate \in 0..MaxSpawnRate
    /\ max_ants \in [AntTypes -> 0..MaxCap]
    /\ hash_order \in HashOrders
    /\ overflow_checks \in BOOLEAN
    /\ pc = "idle"
    /\ cursor = <<0, 0>>
    /\ ticks = 0
    /\ last_update = NoUpdate
    /\ consumed = <<>>
    /\ PureIdle

SpawnTick ==
    /\ pc = "idle"
    /\ ticks < MaxSpawnTicks
    /\ LET spawned == spawn_ants(ants, Colony_position, spawn_rate, max_ants,
                                 hash_order, overflow_checks)
       IN  /\ ants' = spawned.ants
           /\ pc' = IF spawned.panic THEN "aborted" ELSE "idle"
    /\ ticks' = ticks + 1
    /\ last_update' = [NoUpdate EXCEPT !.op = "spawn",
                          !.before = Some([ant_type \in AntTypes |-> Len(ants[ant_type])])]
    /\ UNCHANGED <<resources, resource_lookup, pheromones, pheromone_lookup, spawn_rate,
                   max_ants, hash_order, overflow_checks, cursor, consumed>>
    /\ UNCHANGED pureVars

NextColony == SpawnTick

SpecColony == InitColony /\ [][NextColony]_vars

----------------------------------------------------------------------------
(* The example of spawn_ants' documentation: a colony with the example's    *)
(* caps and population, at every spawn rate up to the example's, in both    *)
(* build profiles.                                                          *)

EXAMPLE_SCOUT_CAP == 50

EXAMPLE_WORKER_CAP == 100

EXAMPLE_SCOUTS == 10

EXAMPLE_WORKERS == 50

EXAMPLE_SPAWN_RATE == 20

InitSpawnExample ==
    /\ resources = <<>>
    /\ resource_lookup = <<>>
    /\ pheromones = <<>>
    /\ pheromone_lookup = <<>>
    /\ ants = [ant_type \in AntTypes |->
                  Spawned(ant_type, Colony_position,
                          IF ant_type = "Scout" THEN EXAMPLE_SCOUTS ELSE EXAMPLE_WORKERS)]
    /\ spawn_rate \in 0..EXAMPLE_SPAWN_RATE
    /\ max_ants = [ant_type \in AntTypes |->
                      IF ant_type = "Scout" THEN EXAMPLE_SCOUT_CAP
                      ELSE EXAMPLE_WORKER_CAP]
    /\ hash_order \in HashOrders
    /\ overflow_checks \in BOOLEAN
    /\ pc = "idle"
    /\ cursor = <<0, 0>>
    /\ ticks = 0
    /\ last_update = NoUpdate
    /\ consumed = <<>>
    /\ PureIdle

SpecSpawnExample == InitSpawnExample /\ [][NextColony]_vars

----------------------------------------------------------------------------
(* The default colony at the caps of the source's settings, empty at first, *)
(* spawning tick after tick for as long as the program's main loop runs,    *)
(* which calls World::update again and again without end.                   *)

UNSCALED_COLONY_SCOUT_SIZE == 25

UNSCALED_COLONY_WORKER_SIZE == 10

MaxFillTicks == 40

InitFill ==
    /\ resources = <<>>
    /\ resource_lookup = <<>>
    /\ pheromones = <<>>
    /\ pheromone_lookup = <<>>
    /\ ants = [ant_type \in AntTypes |-> <<>>]
    /\ spawn_rate = DEFAULT_COLONY_SPAWN_RATE
    /\ max_ants = [ant_type \in AntTypes |->
                      IF ant_type = "Scout" THEN UNSCALED_COLONY_SCOUT_SIZE
                      ELSE UNSCALED_COLONY_WORKER_SIZE]
    /\ hash_order \in HashOrders
    /\ overflow_checks \in BOOLEAN
    /\ pc = "idle"
    /\ cursor = <<0, 0>>
    /\ ticks = 0
    /\ last_update = NoUpdate
    /\ consumed = <<>>
    /\ PureIdle

FillTick ==
    /\ pc = "idle"
    /\ ticks < MaxFillTicks
    /\ LET spawned == spawn_ants(ants, Colony_position, spawn_rate, max_ants,
                                 hash_order, overflow_checks)
       IN  /\ ants' = spawned.ants
           /\ pc' = IF spawned.panic THEN "aborted" ELSE "idle"
    /\ ticks' = ticks + 1
    /\ last_update' = [NoUpdate EXCEPT !.op = "spawn",
                          !.before = Some([ant_type \in AntTypes |-> Len(ants[ant_type])])]
    /\ UNCHANGED <<resources, resource_lookup, pheromones, pheromone_lookup, spawn_rate,
                   max_ants, hash_order, overflow_checks, cursor, consumed>>
    /\ UNCHANGED pureVars

NextFill == FillTick

SpecFill == InitFill /\ [][NextFill]_vars /\ WF_vars(FillTick)

----------------------------------------------------------------------------
(* A world without ants whose grid holds up to two pheromones, one of each *)
(* kind, of any strength, with no decay, the slowest decay or a default    *)
(* rate: nothing refreshes them, and every World::update only runs the     *)
(* sweep.                                                                  *)

MaxFadeTicks == 12

FadeCells == {<<Coordinates_default, kind>> : kind \in PheromoneTypes}

FadeRates ==
    {0, 1, DEFAULT_EXPLORATION_PHEROMONE_DEPRECIATION_RATE,
     DEFAULT_RESOURCE_PHEROMONE_DEPRECIATION_RATE}

FadeGrids ==
    UNION {{grid \in [cells -> [strength : 0..MAXIMUM_PHEROMONE_STRENGTH,
                                depreciation_rate : FadeRates,
                                pheromone_type : PheromoneTypes]] :
               \A cell \in cells : grid[cell].pheromone_type = cell[2]} :
           cells \in SUBSET FadeCells}

InitFade ==
    /\ resources = <<>>
    /\ resource_lookup = <<>>
    /\ pheromones \in FadeGrids
    /\ pheromone_lookup \in
           {lookup \in [1..Cardinality(DOMAIN pheromones) -> DOMAIN pheromones] :
               \A i, j \in DOMAIN lookup : lookup[i] = lookup[j] => i = j}
    /\ ants = [ant_type \in AntTypes |-> <<>>]
    /\ spawn_rate = DEFAULT_COLONY_SPAWN_RATE
    /\ max_ants = get_maximum_number_of_ants
    /\ hash_order = <<"Scout", "Worker">>
    /\ overflow_checks = TRUE
    /\ pc = "idle"
    /\ cursor = <<0, 0>>
    /\ ticks = 0
    /\ last_update = NoUpdate
    /\ consumed = <<>>
    /\ PureIdle

\* World::update of a world whose colonies hold no ant: the sweep
FadeTick ==
    /\ ticks < MaxFadeTicks
    /\ LET swept == sweep(pheromone_lookup, pheromones)
       IN  /\ pheromones' = swept.pheromones
           /\ pheromone_lookup' = swept.pheromone_lookup
    /\ ticks' = ticks + 1
    /\ last_update' = [NoUpdate EXCEPT !.op = "sweep", !.pheromones_before = pheromones,
                                       !.lookup_before = pheromone_lookup]
    /\ UNCHANGED <<resources, resource_lookup, ants, spawn_rate, max_ants, hash_order,
                   overflow_checks, pc, cursor, consumed>>
    /\ UNCHANGED pureVars

NextFade == FadeTick

SpecFade == InitFade /\ [][NextFade]_vars /\ WF_vars(FadeTick)

----------------------------------------------------------------------------
(* A stand-alone Pheromone: built by new or default, then refreshed and     *)
(* updated.  pheromone_sim receives the same calls under                    *)
(* src/sim/src/pheromone.rs, whose refresh differs.                         *)

\* the strengths and rates Pheromone::new is called with
NewStrengths == 0..(MAXIMUM_PHEROMONE_STRENGTH + 1)

NewRates == 0..(MAXIMUM_PHEROMONE_STRENGTH + 1)

\* the amounts refresh is called with: small ones, and ones that overflow u16
RefreshAmounts ==
    (0..MAXIMUM_PHEROMONE_STRENGTH) \cup
    {U16Max - n : n \in 0..MAXIMUM_PHEROMONE_STRENGTH}

InitPheromone ==
    /\ WorldIdle
    /\ PureIdle

CallNew ==
    /\ last_call.op = "none"
    /\ \E strength \in NewStrengths, rate \in NewRates, kind \in PheromoneTypes :
           /\ pheromone' = Pheromone_new(strength, rate, kind)
           /\ pheromone_sim' = Pheromone_new(strength, rate, kind)
           /\ last_call' = [op |-> "new", amount |-> <<strength, rate, kind>>,
                            before |-> None,
                            before_sim |-> None,
                            ret |-> Pheromone_new(strength, rate, kind)]
           /\ UNCHANGED <<resource, coordinates>>
           /\ UNCHANGED worldVars

CallDefault ==
    /\ last_call.op = "none"
    /\ \E kind \in PheromoneTypes :
           /\ pheromone' = Some(Pheromone_default(kind))
           /\ pheromone_sim' = Some(Pheromone_default(kind))
           /\ last_call' = [op |-> "default", amount |-> 0, before |-> None,
                            before_sim |-> None,
                            ret |-> Some(Pheromone_default(kind))]
           /\ UNCHANGED <<resource, coordinates>>
           /\ UNCHANGED worldVars

CallRefresh ==
    /\ is_some(pheromone)
    /\ \E amount \in RefreshAmounts :
        /\ pheromone' = Some(refresh(unwrap(pheromone), amount))
        /\ pheromone_sim' = Some(refresh_sim(unwrap(pheromone_sim), amount))
        /\ last_call' = [op |-> "refresh", amount |-> amount, before |-> pheromone,
                         before_sim |-> pheromone_sim, ret |-> None]
    /\ UNCHANGED <<resource, coordinates>>
    /\ UNCHANGED worldVars

CallUpdate ==
    /\ is_some(pheromone)
    /\ pheromone' = Some(Pheromone_update(unwrap(pheromone)).self)
    /\ pheromone_sim' = Some(Pheromone_update(unwrap(pheromone_sim)).self)
    /\ last_call' = [op |-> "update", amount |-> 0, before |-> pheromone,
                     before_sim |-> pheromone_sim,
                     ret |-> Some(Pheromone_update(unwrap(pheromone)).ret)]
    /\ UNCHANGED <<resource, coordinates>>
    /\ UNCHANGED worldVars

NextPheromone == CallNew \/ CallDefault \/ CallRefresh \/ CallUpdate

SpecPheromone == InitPheromone /\ [][NextPheromone]_vars

----------------------------------------------------------------------------
(* A stand-alone Resource of any count a u8 holds, consumed again and again *)

InitResource ==
    /\ WorldIdle
    /\ pheromone = None
    /\ pheromone_sim = None
    /\ resource \in {Resource(n) : n \in 0..U8Max}
    /\ coordinates = None
    /\ last_call = NoCall

CallConsume ==
    /\ resource' = consume(resource).self
    /\ last_call' = [op |-> "consume", amount |-> 0, before |-> Some(resource),
                     before_sim |-> None, ret |-> consume(resource).ret]
    /\ UNCHANGED <<pheromone, pheromone_sim, coordinates>>
    /\ UNCHANGED worldVars

NextResource == CallConsume

SpecResource == InitResource /\ [][NextResource]_vars

----------------------------------------------------------------------------
(* A stand-alone Coordinates: Coordinates::new with components up to one    *)
(* past the boundary, then modify, safe_modify and manhattan_distance on    *)
(* what it returned.                                                        *)

\* the amounts modify and safe_modify are called with: steps of up to one more
\* than the grid is wide, and the ends of i32
Amounts ==
    ((-(WORLD_WIDTH + 1))..(WORLD_WIDTH + 1)) \cup {I32Max, -I32Max - 1}

InitCoordinates ==
    /\ WorldIdle
    /\ PureIdle

CallCoordinatesNew ==
    /\ \E x \in 0..(WORLD_WIDTH + 1), y \in 0..(WORLD_HEIGHT + 1) :
           /\ coordinates' = Coordinates_new(x, y)
           /\ last_call' = [op |-> "Coordinates::new", amount |-> <<x, y>>, before |-> None,
                            before_sim |-> None, ret |-> Coordinates_new(x, y)]
    /\ UNCHANGED <<pheromone, pheromone_sim, resource>>
    /\ UNCHANGED worldVars

\* modify, safe_modify and manhattan_distance take &self: the receiver stays
CallModify ==
    /\ is_some(coordinates)
    /\ \E x_amount \in Amounts, y_amount \in Amounts :
           last_call' = [op |-> "modify", amount |-> <<x_amount, y_amount>>,
                         before |-> coordinates, before_sim |-> None,
                         ret |-> modify(unwrap(coordinates), x_amount, y_amount)]
    /\ UNCHANGED <<pheromone, pheromone_sim, resource, coordinates>>
    /\ UNCHANGED worldVars

CallSafeModify ==
    /\ is_some(coordinates)
    /\ \E x_amount \in Amounts, y_amount \in Amounts :
           last_call' = [op |-> "safe_modify", amount |-> <<x_amount, y_amount>>,
                         before |-> coordinates, before_sim |-> None,
                         ret |-> Some(safe_modify(unwrap(coordinates), x_amount, y_amount))]
    /\ UNCHANGED <<pheromone, pheromone_sim, resource, coordinates>>
    /\ UNCHANGED worldVars

CallManhattanDistance ==
    /\ is_some(coordinates)
    /\ \E other \in Tiles :
           last_call' = [op |-> "manhattan_distance",
                         amount |-> <<other.x_position, other.y_position>>,
                         before |-> coordinates, before_sim |-> None,
                         ret |-> Some(manhattan_distance(unwrap(coordinates), other))]
    /\ UNCHANGED <<pheromone, pheromone_sim, resource, coordinates>>
    /\ UNCHANGED worldVars

NextCoordinates ==
    CallCoordinatesNew \/ CallModify \/ CallSafeModify \/ CallManhattanDistance

SpecCoordinates == InitCoordinates /\ [][NextCoordinates]_vars

----------------------------------------------------------------------------
(* One ant of a colony on an empty pheromone grid, updated again and again *)
(* with the shuffle and the roll of every move_random call on record       *)

InitAnt ==
    /\ resources = <<>>
    /\ resource_lookup = <<>>
    /\ pheromones = <<>>
    /\ pheromone_lookup = <<>>
    /\ \E ant_type \in AntTypes :
           ants = [t \in AntTypes |->
                      IF t = ant_type
                      THEN <<Ant_new(ant_type, Colony_position, Colony_position)>>
                      ELSE <<>>]
    /\ spawn_rate = DEFAULT_COLONY_SPAWN_RATE
    /\ max_ants = get_maximum_number_of_ants
    /\ hash_order = <<"Scout", "Worker">>
    /\ overflow_checks = TRUE
    /\ pc = "idle"
    /\ cursor = <<0, 0>>
    /\ ticks = 0
    /\ last_update = NoUpdate
    /\ consumed = <<>>
    /\ PureIdle

\* Ant::update up to and including a move_random call: the step counter, the
\* food branch (food tells whether a Resource lies under the ant), the first
\* statement of move_ant, then move_random with its roll and its shuffle
CallMoveRandom ==
    /\ \E ant_type \in AntTypes, food \in BOOLEAN, allow_backwards \in AllowBackwardsRolls,
          moves \in Shuffles :
           /\ Len(ants[ant_type]) = 1
           /\ LET self == ants[ant_type][1]
                  stepped == [self EXCEPT !.steps_on_current_journey = @ + 1]
                  fed == IF food
                         THEN [stepped EXCEPT !.is_returning_to_colony = TRUE,
                                              !.found_food = TRUE]
                         ELSE stepped
                  ready == move_ant_reset(fed)
                  moved == move_random(ready, allow_backwards, moves)
              IN  /\ ants' = [ants EXCEPT ![ant_type][1] = moved.ant]
                  /\ last_call' = [op |-> "move_random",
                                   amount |-> <<allow_backwards, moves>>,
                                   before |-> Some(ready), before_sim |-> None,
                                   ret |-> IF moved.panic THEN None ELSE Some(moved.ant)]
    /\ UNCHANGED <<resources, resource_lookup, pheromones, pheromone_lookup, spawn_rate,
                   max_ants, hash_order, overflow_checks, pc, cursor, ticks, last_update,
                   consumed>>
    /\ UNCHANGED <<pheromone, pheromone_sim, resource, coordinates>>

NextAnt == CallMoveRandom

SpecAnt == InitAnt /\ [][NextAnt]_vars

----------------------------------------------------------------------------
(* Properties *)

Range(seq) == {seq[i] : i \in DOMAIN seq}

AllAnts == UNION {Range(ants[ant_type]) : ant_type \in AntTypes}

\* C1: in every state, a pheromone grid cell (tile, kind) is Some if and only
\* if the pair is in pheromone_lookup; a cell that is None is not in the index.
C1_IndexGridConsistent ==
    /\ DOMAIN pheromones = Range(pheromone_lookup)
    /\ \A tile \in Tiles, kind \in PheromoneTypes :
           <<tile, kind>> \notin DOMAIN pheromones =>
               \A i \in DOMAIN pheromone_lookup : pheromone_lookup[i] # <<tile, kind>>

\* a sweep has just evicted a pheromone and left another one in place
C1_Witness ==
    /\ last_update.op = "sweep"
    /\ Len(pheromone_lookup) < Len(last_update.lookup_before)
    /\ pheromone_lookup # <<>>

C3_NoAbort == pc # "aborted"

\* C4: every ant's position lies inside the grid, whichever movement
\* procedure produced it.
C4_AntsInsideGrid ==
    \A ant \in AllAnts :
        /\ 0 <= ant.position.x_position /\ ant.position.x_position < WORLD_WIDTH
        /\ 0 <= ant.position.y_position /\ ant.position.y_position < WORLD_HEIGHT

\* an ant has just followed a pheromone onto a tile of the grid's last column
C4_Witness ==
    /\ last_update.op = "ant"
    /\ last_update.mode = "pheromones"
    /\ pc # "aborted"
    /\ unwrap(last_update.after).position.x_position = WORLD_WIDTH - 1

\* C5: a Pheromone's strength never exceeds MAXIMUM_PHEROMONE_STRENGTH, after
\* creation, after refresh with any amount and after update, in both versions
\* of refresh.
C5_StrengthWithinMaximum ==
    /\ is_some(pheromone) => unwrap(pheromone).strength <= MAXIMUM_PHEROMONE_STRENGTH
    /\ is_some(pheromone_sim) =>
           unwrap(pheromone_sim).strength <= MAXIMUM_PHEROMONE_STRENGTH

\* a refresh whose sum with the current strength does not fit 16 bits
C5_Witness ==
    /\ last_call.op = "refresh"
    /\ unwrap(last_call.before).strength + last_call.amount > U16Max

\* C6: update returns true if and only if the strength after the call is
\* greater than 0 (stated as the claim states it).
C6_AliveIffPositive ==
    last_call.op = "update" =>
        (unwrap(last_call.ret) <=> unwrap(pheromone).strength > 0)

\* C7: once the strength is 0, or less than the decay rate, update leaves it
\* at 0 and returns false (stated as the claim states it).
C7_ExpiredStaysExpired ==
    (/\ last_call.op = "update"
     /\ \/ unwrap(last_call.before).strength = 0
        \/ unwrap(last_call.before).strength < unwrap(last_call.before).depreciation_rate)
    => (unwrap(pheromone).strength = 0 /\ unwrap(last_call.ret) = FALSE)

\* C8: after every World.update no pheromone of strength 0 is in the grid or
\* referenced by the index (stated as the claim states it).
C8_NoZeroStrengthAfterTick ==
    pc = "idle" =>
        /\ \A cell \in DOMAIN pheromones : pheromones[cell].strength > 0
        /\ \A i \in DOMAIN pheromone_lookup :
               pheromone_lookup[i] \in DOMAIN pheromones =>
                   pheromones[pheromone_lookup[i]].strength > 0

\* C9: consume on a Resource whose count is 1 returns None, the depletion
\* signal (stated as the claim states it).
C9_LastUnitSignalsDepletion ==
    (/\ last_call.op = "consume"
     /\ unwrap(last_call.before).resources_remaining = 1)
    => last_call.ret = None

\* C10: an ant update that starts on a tile holding a Resource of count n
\* leaves count n - 1 in that grid cell, or an empty cell if the resource was
\* depleted (stated as the claim states it).
C10_ConsumptionDepletesGrid ==
    (/\ last_update.op = "ant"
     /\ pc # "aborted"
     /\ is_some(last_update.food_before))
    => LET tile == unwrap(last_update.before).position
           n == unwrap(last_update.food_before).resources_remaining
       IN  IF tile \in DOMAIN resources
           THEN resources[tile].resources_remaining = n - 1
           ELSE n <= 1

\* C11: in every state, resource_lookup contains a coordinate if and only if
\* the resource grid cell there is Some, and a resource whose units have all
\* been consumed is in neither the grid nor the index (stated as the claim
\* states it).
C11_ResourceIndexGridConsistent ==
    /\ DOMAIN resources = Range(resource_lookup)
    /\ \A tile \in DOMAIN consumed :
           consumed[tile] >= DEFAULT_RESOURCE_SIZE =>
               /\ tile \notin DOMAIN resources
               /\ tile \notin Range(resource_lookup)

C13_ModifyChecksTheGrid ==
    last_call.op = "modify" =>
        LET x == unwrap(last_call.before).x_position
            y == unwrap(last_call.before).y_position
            dx == last_call.amount[1]
            dy == last_call.amount[2]
        IN  /\ coordinates = last_call.before
            /\ IF /\ -x <= dx /\ dx < WORLD_WIDTH - x
                  /\ -y <= dy /\ dy < WORLD_HEIGHT - y
               THEN last_call.ret = Some(Coordinates(x + dx, y + dy))
               ELSE last_call.ret = None

\* a move from inside the grid onto x = WORLD_WIDTH exactly has been refused
C13_Witness ==
    /\ last_call.op = "modify"
    /\ InGrid(unwrap(last_call.before))
    /\ last_call.amount[1] = WORLD_WIDTH - unwrap(last_call.before).x_position
    /\ last_call.amount[2] = 0
    /\ last_call.ret = None

\* C14: for every in-grid coordinate and every (dx, dy), the result of
\* safe_modify is inside the grid, a valid index into the grids (stated as the
\* claim states it).
C14_SafeModifyStaysInsideGrid ==
    (last_call.op = "safe_modify" /\ InGrid(unwrap(last_call.before))) =>
        /\ 0 <= unwrap(last_call.ret).x_position
        /\ unwrap(last_call.ret).x_position < WORLD_WIDTH
        /\ 0 <= unwrap(last_call.ret).y_position
        /\ unwrap(last_call.ret).y_position < WORLD_HEIGHT

\* C15: manhattan_distance equals |x1 - x2| + |y1 - y2| for every pair of
\* in-grid coordinates (stated as the claim states it).
C15_ManhattanDistanceFormula ==
    (last_call.op = "manhattan_distance" /\ InGrid(unwrap(last_call.before))) =>
        unwrap(last_call.ret) =
            Abs(unwrap(last_call.before).x_position - last_call.amount[1]) +
            Abs(unwrap(last_call.before).y_position - last_call.amount[2])

\* C16: after an Ant::update that started on the ant's colony tile, the ant is
\* not returning, has 0 steps on its journey and has not found food, whatever
\* its flags were and whether or not a Resource lies on the colony tile.
C16_ColonyReset ==
    (/\ last_update.op = "ant"
     /\ unwrap(last_update.before).position = unwrap(last_update.before).colony_position)
    => /\ unwrap(last_update.after).is_returning_to_colony = FALSE
       /\ unwrap(last_update.after).steps_on_current_journey = 0
       /\ unwrap(last_update.after).found_food = FALSE

\* an ant that came back to its colony carrying food has been updated there
C16_Witness ==
    /\ last_update.op = "ant"
    /\ pc # "aborted"
    /\ unwrap(last_update.before).position = unwrap(last_update.before).colony_position
    /\ unwrap(last_update.before).is_returning_to_colony
    /\ unwrap(last_update.before).found_food
    /\ unwrap(last_update.before).steps_on_current_journey > 0
    /\ ~unwrap(last_update.after).is_returning_to_colony

\* C17: Pheromone::new(strength, rate, kind) returns None when strength is
\* above MAXIMUM_PHEROMONE_STRENGTH or below rate, and otherwise a Pheromone
\* holding exactly the given strength, rate and kind.
C17_NewValidatesStrength ==
    last_call.op = "new" =>
        LET strength == last_call.amount[1]
            rate == last_call.amount[2]
            kind == last_call.amount[3]
        IN  IF strength > MAXIMUM_PHEROMONE_STRENGTH \/ strength < rate
            THEN last_call.ret = None /\ pheromone = None /\ pheromone_sim = None
            ELSE /\ last_call.ret = Some([strength |-> strength, depreciation_rate |-> rate,
                                          pheromone_type |-> kind])
                 /\ pheromone = last_call.ret
                 /\ pheromone_sim = last_call.ret

\* new has refused a strength within the maximum that is below its decay rate
C17_Witness ==
    /\ last_call.op = "new"
    /\ last_call.amount[1] <= MAXIMUM_PHEROMONE_STRENGTH
    /\ last_call.amount[1] < last_call.amount[2]
    /\ last_call.ret = None

\* C18: refresh(amount) leaves the strength at
\* min(old strength + amount, MAXIMUM_PHEROMONE_STRENGTH), in both versions of
\* refresh (stated as the claim states it).
C18_RefreshIsCappedAdd ==
    last_call.op = "refresh" =>
        LET sum == unwrap(last_call.before).strength + last_call.amount
            sum_sim == unwrap(last_call.before_sim).strength + last_call.amount
        IN  /\ unwrap(pheromone).strength =
                   IF sum < MAXIMUM_PHEROMONE_STRENGTH THEN sum
                   ELSE MAXIMUM_PHEROMONE_STRENGTH
            /\ unwrap(pheromone_sim).strength =
                   IF sum_sim < MAXIMUM_PHEROMONE_STRENGTH THEN sum_sim
                   ELSE MAXIMUM_PHEROMONE_STRENGTH

C20_SpawnQuota ==
    (last_update.op = "spawn" /\ is_some(last_update.before)) =>
        (Len(ants["Scout"]) - unwrap(last_update.before)["Scout"]) +
        (Len(ants["Worker"]) - unwrap(last_update.before)["Worker"]) <= spawn_rate

\* a tick in which two kinds were understaffed and the whole quota was spawned
C20_Witness ==
    /\ last_update.op = "spawn"
    /\ is_some(last_update.before)
    /\ spawn_rate > 0
    /\ \A ant_type \in AntTypes :
           Len(ants[ant_type]) > unwrap(last_update.before)[ant_type]
    /\ (Len(ants["Scout"]) - unwrap(last_update.before)["Scout"]) +
       (Len(ants["Worker"]) - unwrap(last_update.before)["Worker"]) = spawn_rate

\* C21: a sweep applies to every pheromone present in the grid its own decay
\* rate exactly once, clamped at zero, and changes nothing else: no cell
\* appears, a cell that stays keeps its rate and kind and has lost one rate of
\* strength, and a cell that is evicted had no more strength than one rate
C21_SweepDecaysOnce ==
    last_update.op = "sweep" =>
        /\ DOMAIN pheromones \subseteq DOMAIN last_update.pheromones_before
        /\ \A cell \in DOMAIN last_update.pheromones_before :
               LET before == last_update.pheromones_before[cell]
                   decayed == IF before.strength > before.depreciation_rate
                              THEN before.strength - before.depreciation_rate
                              ELSE 0
               IN  IF cell \in DOMAIN pheromones
                   THEN pheromones[cell] = [before EXCEPT !.strength = decayed]
                   ELSE decayed = 0

\* a sweep has left a pheromone alive with one rate less than before
C21_Witness ==
    /\ last_update.op = "sweep"
    /\ \E cell \in DOMAIN pheromones :
           /\ pheromones[cell].strength > 0
           /\ last_update.pheromones_before[cell].strength =
                  pheromones[cell].strength + pheromones[cell].depreciation_rate
\* C22: in every step, an ant whose is_returning flag goes from false to true
\* is the ant being updated, and at the start of that update either a Resource
\* lies on its tile or its incremented step count exceeds the budget
C22_ReturningOnlyOnFoodOrTimeout ==
    [][\A ant_type \in AntTypes : \A index \in DOMAIN ants[ant_type] :
          (/\ index \in DOMAIN ants'[ant_type]
           /\ ~ants[ant_type][index].is_returning_to_colony
           /\ ants'[ant_type][index].is_returning_to_colony)
          => /\ pc = "ants"
             /\ hash_order[cursor[1]] = ant_type
             /\ cursor[2] = index
             /\ \/ ants[ant_type][index].position \in DOMAIN resources
                \/ ants[ant_type][index].steps_on_current_journey + 1 >
                       DEFAULT_MAX_ANT_STEPS]_vars

\* an exploring ant with no Resource under it has turned round on a timeout
C22_Witness ==
    /\ last_update.op = "ant"
    /\ pc # "aborted"
    /\ last_update.food_before = None
    /\ ~unwrap(last_update.before).is_returning_to_colony
    /\ unwrap(last_update.after).is_returning_to_colony

\* C23: in every step, an ant whose is_returning flag goes from true to false
\* is the ant being updated and starts that update on its colony anchor
C23_ExploringOnlyFromAnchor ==
    [][\A ant_type \in AntTypes : \A index \in DOMAIN ants[ant_type] :
          (/\ index \in DOMAIN ants'[ant_type]
           /\ ants[ant_type][index].is_returning_to_colony
           /\ ~ants'[ant_type][index].is_returning_to_colony)
          => /\ pc = "ants"
             /\ hash_order[cursor[1]] = ant_type
             /\ cursor[2] = index
             /\ ants[ant_type][index].position =
                    ants[ant_type][index].colony_position]_vars

\* a returning ant off its anchor has been through a timeout and still returns
C23_Witness ==
    /\ last_update.op = "ant"
    /\ pc # "aborted"
    /\ unwrap(last_update.before).is_returning_to_colony
    /\ unwrap(last_update.before).position # unwrap(last_update.before).colony_position
    /\ unwrap(last_update.before).steps_on_current_journey + 1 > DEFAULT_MAX_ANT_STEPS
    /\ unwrap(last_update.after).is_returning_to_colony
\* C24: every ant update that completes leaves the pheromone grid and index
\* as they were except for one cell at the ant's new position: the Resource
\* cell if the ant has found_food, else the Exploration cell if it is a Scout
\* that is not returning, else no cell at all.  That cell holds a pheromone of
\* its kind afterwards, and is appended to the index when it was empty.
C24_LayingRule ==
    [][(pc = "ants" /\ pc' # "aborted")
       => LET ant == ants'[hash_order[cursor[1]]][cursor[2]]
              kind == IF ant.found_food THEN "Resource"
                      ELSE IF ant.ant_type = "Scout" /\ ~ant.is_returning_to_colony
                      THEN "Exploration"
                      ELSE "none"
              cell == <<ant.position, kind>>
          IN  IF kind = "none"
              THEN pheromones' = pheromones /\ pheromone_lookup' = pheromone_lookup
              ELSE /\ DOMAIN pheromones' = DOMAIN pheromones \cup {cell}
                   /\ \A c \in DOMAIN pheromones \ {cell} :
                          pheromones'[c] = pheromones[c]
                   /\ pheromones'[cell].pheromone_type = kind
                   /\ pheromone_lookup' = IF cell \in DOMAIN pheromones
                                          THEN pheromone_lookup
                                          ELSE Append(pheromone_lookup, cell)]_vars

\* an ant carrying food has been updated and a Resource pheromone lies on its
\* new tile, in a colony that also holds a returning Scout without food
C24_Witness ==
    /\ last_update.op = "ant"
    /\ pc # "aborted"
    /\ unwrap(last_update.after).found_food
    /\ <<unwrap(last_update.after).position, "Resource">> \in DOMAIN pheromones
    /\ \E ant \in AllAnts :
           ant.ant_type = "Scout" /\ ant.is_returning_to_colony /\ ~ant.found_food
\* C25: a completed pheromone-following move takes the ant to an in-grid
\* cardinal neighbour that lies in the correct direction by Manhattan distance
\* (farther from the anchor when exploring, closer when returning) and whose
\* consulted strength (Resource layer, and Exploration layer for a Scout) is
\* positive and maximal among such neighbours; the move falls back to the
\* random procedure only when no such neighbour has a positive strength
C25_FollowsStrongestQualifying ==
    [][(pc = "ants" /\ pc' # "aborted"
        /\ last_update'.mode \in {"pheromones", "fallback"})
       => LET before == ants[hash_order[cursor[1]]][cursor[2]]
              after == ants'[hash_order[cursor[1]]][cursor[2]]
              anchor == before.colony_position
              Distance(tile) == Abs(tile.x_position - anchor.x_position) +
                                Abs(tile.y_position - anchor.y_position)
              Qualifying ==
                  {tile \in Tiles :
                      /\ Abs(tile.x_position - before.position.x_position) +
                         Abs(tile.y_position - before.position.y_position) = 1
                      /\ IF after.is_returning_to_colony
                         THEN Distance(tile) < Distance(before.position)
                         ELSE Distance(tile) > Distance(before.position)}
              Layer(tile, kind) == IF <<tile, kind>> \in DOMAIN pheromones
                                   THEN pheromones[<<tile, kind>>].strength
                                   ELSE 0
              Consulted(tile) ==
                  IF after.ant_type = "Scout"
                     /\ Layer(tile, "Exploration") > Layer(tile, "Resource")
                  THEN Layer(tile, "Exploration")
                  ELSE Layer(tile, "Resource")
          IN  IF last_update'.mode = "pheromones"
              THEN /\ after.position \in Qualifying
                   /\ Consulted(after.position) > 0
                   /\ \A tile \in Qualifying :
                          Consulted(tile) <= Consulted(after.position)
              ELSE \A tile \in Qualifying : Consulted(tile) = 0]_vars
\* C26: a completed pheromone-following move that did not fall back to the
\* random procedure strictly increases the ant's Manhattan distance to its
\* anchor when the ant is exploring and strictly decreases it when returning
C26_FollowingMovesInCorrectDirection ==
    (last_update.op = "ant" /\ last_update.mode = "pheromones" /\ pc # "aborted")
    => LET before == unwrap(last_update.before)
           after == unwrap(last_update.after)
           anchor == after.colony_position
           old_distance == Abs(before.position.x_position - anchor.x_position) +
                           Abs(before.position.y_position - anchor.y_position)
           new_distance == Abs(after.position.x_position - anchor.x_position) +
                           Abs(after.position.y_position - anchor.y_position)
       IN  IF after.is_returning_to_colony
           THEN new_distance < old_distance
           ELSE new_distance > old_distance

\* an exploring ant has followed a pheromone to another tile
C26_Witness ==
    /\ last_update.op = "ant"
    /\ last_update.mode = "pheromones"
    /\ pc # "aborted"
    /\ ~unwrap(last_update.after).is_returning_to_colony
    /\ unwrap(last_update.after).position # unwrap(last_update.before).position
\* C27: move_random takes the first direction of the shuffled order whose
\* target tile is in the grid and that either the backwards roll covers or
\* that leads in the correct direction by Manhattan distance (farther from the
\* anchor when exploring, closer when returning); directions that leave the
\* grid are skipped and change nothing else
C27_RandomMoveSelection ==
    last_call.op = "move_random" =>
        LET self == unwrap(last_call.before)
            allow_backwards == last_call.amount[1]
            moves == last_call.amount[2]
            anchor == self.colony_position
            Distance(tile) == Abs(tile.x_position - anchor.x_position) +
                              Abs(tile.y_position - anchor.y_position)
            Target(i) == Coordinates(self.position.x_position + moves[i][1],
                                     self.position.y_position + moves[i][2])
            Eligible(i) ==
                /\ Target(i) \in Tiles
                /\ \/ allow_backwards
                   \/ IF self.is_returning_to_colony
                      THEN Distance(Target(i)) < Distance(self.position)
                      ELSE Distance(Target(i)) > Distance(self.position)
        IN  \A i \in 1..4 :
                (Eligible(i) /\ \A j \in 1..(i - 1) : ~Eligible(j))
                => /\ is_some(last_call.ret)
                   /\ unwrap(last_call.ret).position = Target(i)
\* C28: every ant of the colony, freshly spawned or updated any number of
\* times, caches in distance_from_colony the Manhattan distance from its
\* position to its colony anchor
C28_CachedDistanceIsManhattan ==
    \A ant \in AllAnts :
        ant.distance_from_colony =
            Abs(ant.position.x_position - ant.colony_position.x_position) +
            Abs(ant.position.y_position - ant.colony_position.y_position)
\* C29: when the sweep of a tick has run, every ant of the colony, the ants
\* spawned in that tick included, had completed its update of that tick
\* before it: the Ant::update calls made between the tick's spawning and its
\* sweep are as many as the colony has ants
C29_TwoPhaseTick ==
    last_update.op = "sweep" =>
        last_update.updated = Len(ants["Scout"]) + Len(ants["Worker"])

\* a sweep has decayed pheromones after the updates of a Scout and a Worker
C29_Witness ==
    /\ last_update.op = "sweep"
    /\ last_update.lookup_before # <<>>
    /\ Len(ants["Scout"]) > 0
    /\ Len(ants["Worker"]) > 0
    /\ ticks > 1
\* C30: the pheromone-following move of an ant reads the grid as the ants
\* updated before it in the same tick left it.  With the strengths of that
\* grid: a move that follows a pheromone goes to a tile of positive consulted
\* strength, no weaker than any neighbour of the same row that lies in the
\* correct direction, and a move falls back to the random procedure only when
\* no such neighbour has a positive strength
C30_NoSnapshotIsolation ==
    [][(pc = "ants" /\ pc' # "aborted"
        /\ last_update'.mode \in {"pheromones", "fallback"})
       => LET before == ants[hash_order[cursor[1]]][cursor[2]]
              after == ants'[hash_order[cursor[1]]][cursor[2]]
              anchor == before.colony_position
              RowNeighbours ==
                  {tile \in Tiles :
                      /\ tile.y_position = before.position.y_position
                      /\ Abs(tile.x_position - before.position.x_position) = 1
                      /\ IF after.is_returning_to_colony
                         THEN Abs(tile.x_position - anchor.x_position) <
                                  Abs(before.position.x_position - anchor.x_position)
                         ELSE Abs(tile.x_position - anchor.x_position) >
                                  Abs(before.position.x_position - anchor.x_position)}
              Layer(tile, kind) == IF <<tile, kind>> \in DOMAIN pheromones
                                   THEN pheromones[<<tile, kind>>].strength
                                   ELSE 0
              Consulted(tile) ==
                  IF after.ant_type = "Scout"
                     /\ Layer(tile, "Exploration") > Layer(tile, "Resource")
                  THEN Layer(tile, "Exploration")
                  ELSE Layer(tile, "Resource")
          IN  IF last_update'.mode = "pheromones"
              THEN /\ Consulted(after.position) > 0
                   /\ \A tile \in RowNeighbours :
                          Consulted(tile) <= Consulted(after.position)
              ELSE \A tile \in RowNeighbours : Consulted(tile) = 0]_vars

\* a Worker without food has followed a Resource pheromone that is still at
\* full strength, that is, one laid by an ant updated earlier in the same tick
C30_Witness ==
    /\ last_update.op = "ant"
    /\ last_update.mode = "pheromones"
    /\ pc # "aborted"
    /\ last_update.updated > 1
    /\ unwrap(last_update.after).ant_type = "Worker"
    /\ ~unwrap(last_update.after).found_food
    /\ <<unwrap(last_update.after).position, "Resource">> \in DOMAIN pheromones
    /\ pheromones[<<unwrap(last_update.after).position, "Resource">>].strength =
           MAXIMUM_PHEROMONE_STRENGTH
\* C31: for caps of 50 Scouts and 100 Workers, a population of 10 Scouts and
\* 50 Workers and a spawn rate of 20, spawn_ants stays within 16-bit
\* arithmetic (no product required * spawn_rate * 100 leaves the u16 range,
\* so no build aborts) and spawns 8 Scouts and 11 Workers
C31_DocumentedExample ==
    (/\ last_update.op = "spawn"
     /\ last_update.before =
            Some([ant_type \in AntTypes |->
                     IF ant_type = "Scout" THEN EXAMPLE_SCOUTS ELSE EXAMPLE_WORKERS])
     /\ max_ants["Scout"] = EXAMPLE_SCOUT_CAP
     /\ max_ants["Worker"] = EXAMPLE_WORKER_CAP
     /\ spawn_rate = EXAMPLE_SPAWN_RATE)
    => /\ pc # "aborted"
       /\ Len(ants["Scout"]) = EXAMPLE_SCOUTS + 8
       /\ Len(ants["Worker"]) = EXAMPLE_WORKERS + 11
\* C32: in every state pheromone_lookup holds each (coordinates, kind) pair
\* at most once
C32_LookupHasNoDuplicates ==
    \A i, j \in DOMAIN pheromone_lookup :
        pheromone_lookup[i] = pheromone_lookup[j] => i = j

\* an ant has refreshed a pheromone whose cell was in the index already, and
\* the index is as it was
C32_Witness ==
    /\ last_update.op = "ant"
    /\ pc # "aborted"
    /\ is_some(laid_pheromone_type(unwrap(last_update.after)))
    /\ \E i \in DOMAIN last_update.lookup_before :
           last_update.lookup_before[i] =
               <<unwrap(last_update.after).position,
                 unwrap(laid_pheromone_type(unwrap(last_update.after)))>>
    /\ pheromone_lookup = last_update.lookup_before
\* C33: every ant update that completes leaves the ant on a tile of the grid
\* at Manhattan distance exactly 1 from the tile it started on, whichever
\* procedure moved it
C33_MovesExactlyOneTile ==
    (last_update.op = "ant" /\ pc # "aborted")
    => LET before == unwrap(last_update.before).position
           after == unwrap(last_update.after).position
       IN  /\ after \in Tiles
           /\ Abs(after.x_position - before.x_position) +
              Abs(after.y_position - before.y_position) = 1

\* an ant on the left edge of the grid has fallen back from
\* pheromone-following to the random procedure and moved
C33_Witness ==
    /\ last_update.op = "ant"
    /\ pc # "aborted"
    /\ last_update.mode = "fallback"
    /\ unwrap(last_update.before).position.x_position = 0
\* C34: in every state every ant of the colony, fresh or updated, has
\* steps_on_current_journey <= DEFAULT_MAX_ANT_STEPS, far below the 65535 a
\* u16 holds
C34_StepCounterBounded ==
    /\ DEFAULT_MAX_ANT_STEPS < U16Max
    /\ \A ant \in AllAnts : ant.steps_on_current_journey <= DEFAULT_MAX_ANT_STEPS

\* an ant away from its colony that had used up its budget was updated, and
\* its counter is back at 0
C34_Witness ==
    /\ last_update.op = "ant"
    /\ pc # "aborted"
    /\ unwrap(last_update.before).position # unwrap(last_update.before).colony_position
    /\ unwrap(last_update.before).steps_on_current_journey = DEFAULT_MAX_ANT_STEPS
    /\ unwrap(last_update.after).steps_on_current_journey = 0
\* C35: in every state every ant of the colony that has found_food is
\* returning to its colony
C35_FoodImpliesReturning ==
    \A ant \in AllAnts : ant.found_food => ant.is_returning_to_colony

\* an ant that came home with food has been updated on its anchor and is
\* exploring again without food, while the colony holds an ant carrying food
C35_Witness ==
    /\ last_update.op = "ant"
    /\ pc # "aborted"
    /\ unwrap(last_update.before).found_food
    /\ unwrap(last_update.before).position = unwrap(last_update.before).colony_position
    /\ ~unwrap(last_update.after).found_food
    /\ ~unwrap(last_update.after).is_returning_to_colony
    /\ \E ant \in AllAnts : ant.found_food
\* C36: a refresh of a Pheromone whose strength is at most
\* MAXIMUM_PHEROMONE_STRENGTH, by any amount, never leaves it weaker than it
\* was, in both versions of refresh; in particular a pheromone at the maximum
\* stays at the maximum
C36_RefreshNeverWeakens ==
    (/\ last_call.op = "refresh"
     /\ unwrap(last_call.before).strength <= MAXIMUM_PHEROMONE_STRENGTH
     /\ unwrap(last_call.before_sim).strength <= MAXIMUM_PHEROMONE_STRENGTH)
    => /\ unwrap(pheromone).strength >= unwrap(last_call.before).strength
       /\ unwrap(pheromone_sim).strength >= unwrap(last_call.before_sim).strength
\* C37: from an empty default colony (caps 25 Scouts and 10 Workers, spawn
\* rate 2), every tick that starts with some kind below its cap spawns at
\* least one ant, and from some tick on every kind stands at exactly its cap
\* for good
C37_SpawningFillsTheColony ==
    /\ [](\/ last_update.op # "spawn"
          \/ \A ant_type \in AntTypes :
                 unwrap(last_update.before)[ant_type] >= max_ants[ant_type]
          \/ Len(ants["Scout"]) + Len(ants["Worker"]) >
                 unwrap(last_update.before)["Scout"] +
                 unwrap(last_update.before)["Worker"])
    /\ <>[](\A ant_type \in AntTypes : Len(ants[ant_type]) = max_ants[ant_type])

\* the default colony has been filled to its caps, and a later tick has
\* found it full and spawned nothing
C37_Witness ==
    /\ last_update.op = "spawn"
    /\ pc # "aborted"
    /\ \A ant_type \in AntTypes :
           /\ unwrap(last_update.before)[ant_type] = max_ants[ant_type]
           /\ Len(ants[ant_type]) = max_ants[ant_type]
    /\ max_ants["Scout"] = UNSCALED_COLONY_SCOUT_SIZE
    /\ max_ants["Worker"] = UNSCALED_COLONY_WORKER_SIZE
\* C38: a pheromone with a decay rate above 0 that nothing refreshes is,
\* some ticks later, gone from the grid and from pheromone_lookup; and of a
\* default Exploration and a default Resource pheromone laid together, the
\* Resource one is evicted first
C38_TrailsFade ==
    /\ \A cell \in FadeCells :
           [](/\ cell \in DOMAIN pheromones
              /\ pheromones[cell].depreciation_rate > 0
              => <>(/\ cell \notin DOMAIN pheromones
                    /\ \A i \in DOMAIN pheromone_lookup : pheromone_lookup[i] # cell))
    /\ (/\ DOMAIN pheromones = FadeCells
        /\ \A cell \in FadeCells : pheromones[cell] = Pheromone_default(cell[2]))
       => <>(/\ <<Coordinates_default, "Resource">> \notin DOMAIN pheromones
             /\ <<Coordinates_default, "Exploration">> \in DOMAIN pheromones)

\* two default pheromones were left alone: the Resource one is gone and the
\* Exploration one is still in the grid, decayed
C38_Witness ==
    /\ last_update.op = "sweep"
    /\ ants = [ant_type \in AntTypes |-> <<>>]
    /\ ticks = 2
    /\ DOMAIN last_update.pheromones_before = FadeCells
    /\ last_update.pheromones_before[<<Coordinates_default, "Resource">>] =
           [Pheromone_default("Resource") EXCEPT
               !.strength = MAXIMUM_PHEROMONE_STRENGTH -
                                DEFAULT_RESOURCE_PHEROMONE_DEPRECIATION_RATE]
    /\ DOMAIN pheromones = {<<Coordinates_default, "Exploration">>}
    /\ pheromones[<<Coordinates_default, "Exploration">>] =
           [Pheromone_default("Exploration") EXCEPT
               !.strength = MAXIMUM_PHEROMONE_STRENGTH -
                                2 * DEFAULT_EXPLORATION_PHEROMONE_DEPRECIATION_RATE]
====
